---- MODULE Spec2Model ----
(***************************************************************************)
(* The API bus of ZenithAlgo (src/unnamed/part_009, package main): the     *)
(* in-memory task queue with its worker pool, retry timers and SQLite      *)
(* store, across process crashes and restarts.                             *)
(*                                                                         *)
(* A Task object lives on the Go heap and is shared by pointer between the *)
(* task map, the work channel, the workers and the retry timers, so the    *)
(* model keeps a heap of objects addressed by references.  A reference is  *)
(* <<id, gen>>: gen "N" for the object Enqueue allocated in this process   *)
(* lifetime, gen "L" for the one LoadTasks rebuilt from the store row.     *)
(***************************************************************************)
EXTENDS Integers, Sequences, FiniteSets, Bags, TLC

\* ---------------------------------------------------------------- bounds
MaxTasks == 2          \* Enqueue calls over all process lifetimes
MaxRestarts == 1       \* crashes followed by a restart
MaxClock == 1          \* last wall-clock second the model reads
QueueCap == 1          \* capacity of the work channel (128 in the source)
QueueCapLong == 2      \* its capacity where the order of the channel is followed
MaxWorkers == 2        \* largest -workers flag
MaxRetriesFlag == 1    \* largest -max-retries flag under crashes
MaxRetriesLong == 2    \* largest -max-retries flag without crashes
MaxLines == 2          \* lines the external process writes to one stream
MaxConns == 2          \* WebSocket connections over one process lifetime

\* ------------------------------------------------------------- constants
TaskPending == "pending"
TaskRunning == "running"
TaskSucceeded == "succeeded"
TaskFailed == "failed"

TaskTypes == {"backtest", "sweep"}

\* a task type the switch of worker() has no case for
OtherTypes == {"optimize"}

\* cap on Task.Attempts, which crashes and colliding IDs let grow without end
MaxAttempts == MaxRetriesLong + 1

NoResult == [nil |-> TRUE]
NoTask == <<>>

VARIABLES
    phase,      \* "up": serving; "down": crashed; "boot": inside newTaskQueue
    boot,       \* newTaskQueue: loaded tasks its loop has not visited yet
    clock,      \* wall-clock second of the last time.Now() of nextID
    seq,        \* tq.seq
    tasks,      \* tq.tasks: task ID -> reference
    heap,       \* reference -> Task
    queue,      \* tq.queue: buffered references, head first
    timers,     \* references held by a pending time.AfterFunc
    enq,        \* Enqueue calls in flight: reference -> pc
    wk,         \* worker -> [pc, task, result]: its position in worker()
    store,      \* table tasks, in rowid order
    runs,       \* table runs, in rowid order (task ids)
    nworkers,   \* -workers flag
    maxRetries, \* -max-retries flag
    restarts,   \* restarts so far
    issued,     \* every Enqueue call so far: sequence of returned IDs
    hist,       \* task ID -> statuses the map entry took, this lifetime
    sent,       \* task ID -> statuses broadcast as task_update, this lifetime
    trace,      \* whether hist and sent are recorded
    pushed,     \* <<ID, type>> of every Enqueue call that reached its return
    resp,       \* the last HTTP response a submit handler wrote
    web,        \* whether the handlers' responses are followed and recorded
    world,      \* what the runner and the files of the repository can do
    disk,       \* results/<type>/...: the subdirectories, oldest modification first
    hub,        \* the Hub: registered connections, and what became of each
    pipe,       \* one call of runMain: the process, its two pipes, the readers
    mu          \* tq.mu: the worker inside tq.update that holds it, 0 if none

vars == <<phase, boot, clock, seq, tasks, heap, queue, timers, enq, wk,
          store, runs, nworkers, maxRetries, restarts, issued, hist, sent, trace,
          pushed, resp, web, world, disk, hub, pipe, mu>>

\* ------------------------------------------------------------- helpers
Put(f, k, v) == [x \in (DOMAIN f) \cup {k} |-> IF x = k THEN v ELSE f[x]]
Drop(f, k) == [x \in (DOMAIN f) \ {k} |-> f[x]]
Range(s) == {s[i] : i \in DOMAIN s}
\* newTaskQueue, one goroutine too many (for i := 0; i <= workers; i++)
WorkersOneMore == 1..(nworkers + 1)

\* newTaskQueue: for i := 0; i < workers; i++ { go tq.worker(i + 1) }
Workers == 1..nworkers
IdOf(ref) == ref[1]

RECURSIVE FormatUint(_)
\* strconv.FormatUint(seq, 10): the decimal digits, most significant first
FormatUint(n) == IF n < 10 THEN <<n>> ELSE Append(FormatUint(n \div 10), n % 10)

\* nextID: time.Now().Format("20060102150405") + "-" + FormatUint(seq)
nextID(now, s) == <<now, FormatUint(s)>>

RECURSIVE LexLess(_, _)
\* a < b for two strings of decimal digits compared as strings
LexLess(a, b) ==
    IF a = <<>> THEN b # <<>>
    ELSE IF b = <<>> THEN FALSE
    ELSE IF Head(a) # Head(b) THEN Head(a) < Head(b)
    ELSE LexLess(Tail(a), Tail(b))

\* a < b for two task IDs compared as strings: the 14 digits of the
\* timestamp first, then (after the "-") the digits of the sequence number
StrLess(a, b) == a[1] < b[1] \/ (a[1] = b[1] /\ LexLess(a[2], b[2]))

NewTask(id, type) ==
    [id |-> id, type |-> type, status |-> TaskPending, result |-> NoResult,
     lastError |-> "", attempts |-> 0, maxRetries |-> maxRetries,
     started |-> FALSE, finished |-> FALSE]

\* tq.update(id, fn): the map's object for id, if any, becomes t, the value
\* fn gives it (the callers pass fn applied to heap[tasks[id]])
update(id, t) ==
    IF id \in DOMAIN tasks
    THEN [heap EXCEPT ![tasks[id]] = t]
    ELSE heap

\* status the map entry of id has after the heap changes to h
Noted(h, id, old) ==
    IF trace /\ id \in DOMAIN tasks /\ h[tasks[id]].status # old[tasks[id]].status
    THEN [hist EXCEPT ![id] = Append(@, h[tasks[id]].status)]
    ELSE hist

\* row position of id in the tasks table, 0 if absent
RowOf(id) ==
    IF \E i \in DOMAIN store : store[i].id = id
    THEN CHOOSE i \in DOMAIN store : store[i].id = id
    ELSE 0

\* Storage.SaveTask: INSERT OR REPLACE (a replaced row gets a new rowid)
SaveTask(t) ==
    Append(SelectSeq(store, LAMBDA r : r.id # t.id), t)

\* Storage.UpdateTask: UPDATE ... WHERE id=?; created_at is not written
UpdateTask(id, t) ==
    IF RowOf(id) = 0 THEN store
    ELSE [store EXCEPT ![RowOf(id)] = [t EXCEPT !.id = id]]

\* Storage.LoadTasks: one fresh object per row, in scan order
LoadTasks == [i \in DOMAIN store |-> <<store[i].id, "L">>]

\* The last request a submit handler took up, <<method, body>> (the body of a
\* request that is not a POST is never read, and is recorded as ""), and what
\* writeJSON(w, code, ...) answered it: the status code (0 while Enqueue is
\* under way) and, for a TaskResponse, its Status
Response(req, code, status) == [req |-> req, code |-> code, status |-> status]
NoResponse == Response(<<>>, 0, "")

\* the results directories before any run: no subdirectory under any type
NoDisk == [type \in TaskTypes \cup OtherTypes |-> <<>>]

\* newHub(): no client registered (kind: what a write to each connection
\* does; closed: the connections closed; got: the connections the last
\* Broadcast wrote to, with whether the write succeeded; mu: h.mu)
newHub == [clients |-> {}, kind |-> <<>>, closed |-> {}, got |-> <<>>, mu |-> "free"]

\* no call of runMain under way
NoPipe == [pc |-> "none"]

IdleWorker == [pc |-> "idle", task |-> NoTask, result |-> NoResult]

\* ------------------------------------------------------------- Init
\* How a run of the external command can end: exit code 0, exit code 1,
\* cmd.Start fails, the context times out and the process is killed
RunOutcomes == {"exit0", "exit1", "startError", "timeout"}

\* backtest.symbol of the config files the requests name
Symbols == {"BTCUSDT", "ETHUSDT"}

\* What SaveRunIndex finds on disk: the config file (readable with the four
\* backtest fields, unreadable or not YAML, or lacking a field), the results
\* directory of the run (with a subdirectory, missing, or without one) and
\* summary.json in the latest subdirectory, and the symbol of a readable config
IndexFiles ==
    [config : {"ok", "unreadable", "noFields"},
     dir : {"found", "missing", "empty"},
     summary : {"ok", "unreadable"},
     symbol : Symbols]

\* The world in which the runs only exit with 0 or 1 and the index is
\* derived or not for want of a results directory, and the one in which
\* everything happens that runMain and SaveRunIndex provide for
\* (every config with the same symbol).  disk: whether the subdirectories the
\* runs write are followed, and the latest one found among them; split:
\* whether a broadcast is followed as a step of its own after the update;
\* cap: the capacity of tq.queue
PlainWorld ==
    [outcomes |-> {"exit0", "exit1"},
     files |-> {f \in IndexFiles : f.config = "ok" /\ f.summary = "ok"
                                    /\ f.dir \in {"found", "missing"}
                                    /\ f.symbol = "BTCUSDT"},
     disk |-> FALSE, split |-> FALSE, cap |-> QueueCap]
FullWorld ==
    [outcomes |-> RunOutcomes,
     files |-> {f \in IndexFiles : f.symbol = "BTCUSDT"},
     disk |-> FALSE, split |-> FALSE, cap |-> QueueCap]

\* the state newTaskQueue returns on an empty store, at wall-clock second now
InitAt(retrySet, tr, wb, now) ==
    /\ trace = tr
    /\ web = wb
    /\ phase = "up"
    /\ boot = <<>>
    /\ clock = now
    /\ seq = 0
    /\ tasks = <<>>
    /\ heap = <<>>
    /\ queue = <<>>
    /\ timers = EmptyBag
    /\ enq = <<>>
    /\ nworkers \in 1..MaxWorkers
    /\ maxRetries \in retrySet
    /\ wk = [w \in Workers |-> IdleWorker]
    /\ store = <<>>
    /\ runs = <<>>
    /\ restarts = 0
    /\ issued = <<>>
    /\ hist = <<>>
    /\ sent = <<>>
    /\ pushed = {}
    /\ resp = NoResponse
    /\ disk = NoDisk
    /\ hub = newHub
    /\ pipe = NoPipe
    /\ mu = 0

InitWith(retrySet, tr, wb) == InitAt(retrySet, tr, wb, 0)

Init == InitWith(0..MaxRetriesFlag, FALSE, FALSE) /\ world = PlainWorld

\* ------------------------------------------------------------- Enqueue
\* broadcastTask(task): a task_update carrying *task as it is in heap h
broadcastTask(h, ref) ==
    IF trace THEN [sent EXCEPT ![IdOf(ref)] = Append(@, h[ref].status)] ELSE sent

\* The broadcastTask that follows an update or a SaveTask, on the heap h that
\* step leaves: made with it, or (world.split) left to a step of its own
Handed(h, ref) == IF world.split THEN sent ELSE broadcastTask(h, ref)

\* where a worker goes on after its tq.update: to pc, or (world.split) first
\* to the broadcastTask in front of pc
After(pc) ==
    IF ~world.split THEN pc
    ELSE CASE pc = "storeRun" -> "pubRun"
           [] pc = "decide" -> "pubFin"
           [] pc = "storeFin" -> "pubReset"
           [] pc = "storeUnknown" -> "pubUnknown"

\* TaskQueue.Enqueue up to the map insert: nextID, the new Task, tq.tasks[id]
EnqueueStart(type, now) ==
    /\ phase = "up"
    /\ Len(issued) < MaxTasks
    /\ LET id == nextID(now, seq + 1)
           ref == <<id, "N">>
       IN /\ seq' = seq + 1
          /\ clock' = now
          /\ heap' = Put(heap, ref, NewTask(id, type))
          /\ tasks' = Put(tasks, id, ref)
          /\ enq' = Put(enq, ref, "save")
          /\ issued' = Append(issued, id)
          /\ hist' = IF ~trace THEN hist
                      ELSE Put(hist, id, IF id \in DOMAIN hist
                                         THEN Append(hist[id], TaskPending)
                                         ELSE <<TaskPending>>)
          /\ sent' = IF ~trace \/ id \in DOMAIN sent THEN sent ELSE Put(sent, id, <<>>)
    /\ UNCHANGED <<phase, boot, queue, timers, wk, store, runs, nworkers,
                   maxRetries, restarts, trace, pushed, web, world, disk, hub, pipe, mu>>

\* request methods and bodies the handlers are tried on
Methods == {"POST", "GET"}
Bodies == {"valid", "empty", "malformed", "unknownField"}

\* json.Decoder.Decode with DisallowUnknownFields on the body: its error
Decode(body) ==
    CASE body = "valid" -> ""
      [] body = "empty" -> "EOF"
      [] body = "malformed" -> "invalid character"
      [] body = "unknownField" -> "json: unknown field"

\* parseRequest without dec.DisallowUnknownFields()
parseRequestLenient(body) ==
    IF Decode(body) \notin {"", "json: unknown field"}
    THEN IF Decode(body) = "EOF" THEN "" ELSE Decode(body)
    ELSE ""

\* parseRequest: an io.EOF of Decode (an empty body) is no error
parseRequest(body) ==
    IF Decode(body) # ""
    THEN IF Decode(body) = "EOF" THEN "" ELSE Decode(body)
    ELSE ""

\* a handler's early return: writeJSON with a 4xx code and nothing else
Reject(req, code) ==
    /\ phase = "up"
    /\ resp' = IF web THEN Response(req, code, "") ELSE resp
    /\ UNCHANGED <<phase, boot, clock, seq, tasks, heap, queue, timers, enq, wk,
                   store, runs, nworkers, maxRetries, restarts, issued, hist,
                   sent, trace, pushed, web, world, disk, hub, pipe, mu>>

\* handleBacktest / handleSweep up to the call of Enqueue
handleSubmit(type) ==
    \E method \in Methods :
        IF method # "POST" THEN Reject(<<method, "">>, 405)
        ELSE \E body \in Bodies :
            IF parseRequest(body) # "" THEN Reject(<<method, body>>, 400)
            ELSE /\ \E now \in clock..MaxClock : EnqueueStart(type, now)
                 /\ resp' = IF web THEN Response(<<method, body>>, 0, "") ELSE resp

handleBacktest == handleSubmit("backtest")
handleSweep == handleSubmit("sweep")

\* TaskQueue.Enqueue called with a type no handler passes
EnqueueOther ==
    /\ \E type \in OtherTypes, now \in clock..MaxClock : EnqueueStart(type, now)
    /\ UNCHANGED resp

\* Enqueue: tq.store.SaveTask(task), then tq.broadcastTask(task)
EnqueueSave(ref) ==
    /\ phase = "up"
    /\ ref \in DOMAIN enq /\ enq[ref] = "save"
    /\ store' = SaveTask(heap[ref])
    /\ sent' = Handed(heap, ref)
    /\ enq' = [enq EXCEPT ![ref] = IF world.split THEN "pub" ELSE "push"]
    /\ UNCHANGED <<phase, boot, clock, seq, tasks, heap, queue, timers, wk,
                   runs, nworkers, maxRetries, restarts, issued, hist, trace,
                   pushed, resp, web, world, disk, hub, pipe, mu>>

\* Enqueue: tq.store.SaveTask(task) returns an error (the database is locked,
\* the disk is full), which is logged; then tq.broadcastTask(task)
EnqueueSaveFails(ref) ==
    /\ phase = "up"
    /\ ref \in DOMAIN enq /\ enq[ref] = "save"
    /\ sent' = Handed(heap, ref)
    /\ enq' = [enq EXCEPT ![ref] = IF world.split THEN "pub" ELSE "push"]
    /\ UNCHANGED <<phase, boot, clock, seq, tasks, heap, queue, timers, wk, store,
                   runs, nworkers, maxRetries, restarts, issued, hist, trace,
                   pushed, resp, web, world, disk, hub, pipe, mu>>

\* Enqueue with a send that gives up on a full channel (select ... default)
EnqueuePushOrDrop(ref) ==
    /\ phase = "up"
    /\ ref \in DOMAIN enq /\ enq[ref] = "push"
    /\ queue' = IF Len(queue) < world.cap THEN Append(queue, ref) ELSE queue
    /\ enq' = IF web THEN [enq EXCEPT ![ref] = "respond"] ELSE Drop(enq, ref)
    /\ pushed' = pushed \cup {<<IdOf(ref), heap[ref].type>>}
    /\ UNCHANGED <<phase, boot, clock, seq, tasks, heap, timers, wk, store,
                   runs, nworkers, maxRetries, restarts, issued, hist, sent, trace, resp, web, world, disk, hub, pipe, mu>>

\* Enqueue: tq.queue <- task (blocks while the buffer is full), return
EnqueuePush(ref) ==
    /\ phase = "up"
    /\ ref \in DOMAIN enq /\ enq[ref] = "push"
    /\ Len(queue) < world.cap
    /\ queue' = Append(queue, ref)
    /\ enq' = IF web THEN [enq EXCEPT ![ref] = "respond"] ELSE Drop(enq, ref)
    /\ pushed' = pushed \cup {<<IdOf(ref), heap[ref].type>>}
    /\ UNCHANGED <<phase, boot, clock, seq, tasks, heap, timers, wk, store,
                   runs, nworkers, maxRetries, restarts, issued, hist, sent, trace, resp, web, world, disk, hub, pipe, mu>>

\* handleBacktest / handleSweep after Enqueue returned: writeJSON(w, 200,
\* TaskResponse{TaskID: task.ID, Status: task.Status}), task.Status read
\* without tq.mu
Respond(ref) ==
    /\ phase = "up"
    /\ ref \in DOMAIN enq /\ enq[ref] = "respond"
    /\ resp' = Response(<<>>, 200, heap[ref].status)
    /\ enq' = Drop(enq, ref)
    /\ UNCHANGED <<phase, boot, clock, seq, tasks, heap, queue, timers, wk, store,
                   runs, nworkers, maxRetries, restarts, issued, hist, sent, trace, pushed, web, world, disk, hub, pipe, mu>>

\* ------------------------------------------------------------- worker
MarkRunningFn(t) ==
    [t EXCEPT !.status = TaskRunning, !.attempts = @ + 1, !.started = TRUE]

\* the error of cmd.Wait: nil, or an *exec.ExitError
WaitError(out) ==
    CASE out = "exit0" -> ""
      [] out = "exit1" -> "exit status 1"
      [] out = "timeout" -> "signal: killed"

\* the exit code inside an *exec.ExitError (-1 for a process a signal ended)
ExitErrorCode(out) == IF out = "exit1" THEN 1 ELSE -1

\* exitCode(err): 0 for nil, the code of an *exec.ExitError, else -1
exitCode(out) == IF WaitError(out) = "" THEN 0 ELSE ExitErrorCode(out)

\* runMain with a failed cmd.Start taken for a started process that ended
runMainNoStartCheck(out) ==
    [nil |-> FALSE, ok |-> out \in {"exit0", "startError"},
     exitCode |-> IF out = "startError" THEN -1 ELSE exitCode(out),
     error |-> IF out = "startError" THEN "" ELSE WaitError(out)]

\* runMain: the RunResponse (OK, ExitCode, Error) of one run
runMain(out) ==
    IF out = "startError"
    THEN [nil |-> FALSE, ok |-> FALSE, exitCode |-> -1, error |-> "exec: not found"]
    ELSE [nil |-> FALSE, ok |-> WaitError(out) = "", exitCode |-> exitCode(out),
          error |-> WaitError(out)]

FinishFn(t, result) ==
    IF result.ok
    THEN [t EXCEPT !.status = TaskSucceeded, !.result = result, !.finished = TRUE]
    ELSE [t EXCEPT !.status = TaskFailed, !.lastError = result.error,
                   !.result = result, !.finished = TRUE]

\* the retry reset without its Status assignment
ResetFnKeepsStatus(t) ==
    [t EXCEPT !.started = FALSE, !.finished = FALSE, !.result = NoResult]

ResetFn(t) ==
    [t EXCEPT !.status = TaskPending, !.started = FALSE, !.finished = FALSE,
              !.result = NoResult]

\* the retry test with < for <=
ShouldRetryStrict(result, t) == ~result.ok /\ t.attempts < t.maxRetries

\* worker: !result.OK && task.Attempts <= task.MaxRetries
ShouldRetry(result, t) == ~result.ok /\ t.attempts <= t.maxRetries

Rest == <<phase, boot, clock, seq, tasks, timers, enq, runs, nworkers,
          maxRetries, restarts, issued, trace, pushed, resp, web, world, pipe, mu>>
Others == <<Rest, disk, hub>>

\* a worker receiving the value sent last instead of the one sent first
WDequeueLast(w) ==
    /\ phase = "up"
    /\ wk[w].pc = "idle"
    /\ \A v \in 1..(w - 1) : wk[v].pc # "idle"
    /\ queue # <<>>
    /\ wk' = [wk EXCEPT ![w] = [@ EXCEPT !.pc = "mark", !.task = queue[Len(queue)]]]
    /\ queue' = SubSeq(queue, 1, Len(queue) - 1)
    /\ UNCHANGED <<heap, store, hist, sent>>
    /\ UNCHANGED Others

\* worker: for task := range tq.queue.  worker(_ int) ignores its number, so
\* the idle workers are interchangeable and the lowest-numbered one receives
WDequeue(w) ==
    /\ phase = "up"
    /\ wk[w].pc = "idle"
    /\ \A v \in 1..(w - 1) : wk[v].pc # "idle"
    /\ queue # <<>>
    /\ wk' = [wk EXCEPT ![w] = [@ EXCEPT !.pc = "mark", !.task = Head(queue)]]
    /\ queue' = Tail(queue)
    /\ UNCHANGED <<heap, store, hist, sent>>
    /\ UNCHANGED Others

\* worker: tq.update(task.ID, Status = running, Attempts += 1, StartedAt),
\* then tq.broadcastTask(task)
WMarkRunning(w) ==
    /\ phase = "up"
    /\ wk[w].pc = "mark"
    /\ LET id == IdOf(wk[w].task)
           h == update(id, MarkRunningFn(heap[tasks[id]]))
       IN /\ heap[tasks[id]].attempts < MaxAttempts
          /\ heap' = h
          /\ hist' = Noted(h, id, heap)
          /\ sent' = Handed(h, wk[w].task)
    /\ wk' = [wk EXCEPT ![w].pc = After("storeRun")]
    /\ UNCHANGED <<queue, store>>
    /\ UNCHANGED Others

\* worker: tq.store.UpdateTask(task.ID, task) after the running update, then
\* the switch on task.Type (both known types go on to runMain)
WStoreRunning(w) ==
    /\ phase = "up"
    /\ wk[w].pc = "storeRun"
    /\ store' = UpdateTask(IdOf(wk[w].task), heap[wk[w].task])
    /\ wk' = [wk EXCEPT ![w].pc = IF heap[wk[w].task].type \in TaskTypes
                                  THEN "run" ELSE "unknown"]
    /\ UNCHANGED <<heap, queue, hist, sent>>
    /\ UNCHANGED Others

\* RunResponse{OK: false, ExitCode: -1, Error: "unknown task type"}
UnknownResult == [nil |-> FALSE, ok |-> FALSE, exitCode |-> -1, error |-> "unknown task type"]

\* the default branch: failed, Result, FinishedAt (LastError is not set)
UnknownFn(t) ==
    [t EXCEPT !.status = TaskFailed, !.result = UnknownResult, !.finished = TRUE]

\* the default branch going on to the retry test instead of continue
WUnknownRetried(w) ==
    /\ phase = "up"
    /\ wk[w].pc = "unknown"
    /\ LET id == IdOf(wk[w].task)
           h == update(id, UnknownFn(heap[tasks[id]]))
       IN /\ heap' = h
          /\ hist' = Noted(h, id, heap)
          /\ sent' = Handed(h, wk[w].task)
    /\ wk' = [wk EXCEPT ![w] = [@ EXCEPT !.pc = After("decide"), !.result = UnknownResult]]
    /\ UNCHANGED <<queue, store>>
    /\ UNCHANGED Others

\* worker, default branch of the switch: tq.update(task.ID, failed ...), then
\* tq.broadcastTask(task)
WUnknown(w) ==
    /\ phase = "up"
    /\ wk[w].pc = "unknown"
    /\ LET id == IdOf(wk[w].task)
           h == update(id, UnknownFn(heap[tasks[id]]))
       IN /\ heap' = h
          /\ hist' = Noted(h, id, heap)
          /\ sent' = Handed(h, wk[w].task)
    /\ wk' = [wk EXCEPT ![w].pc = After("storeUnknown")]
    /\ UNCHANGED <<queue, store>>
    /\ UNCHANGED Others

\* worker, default branch: tq.store.UpdateTask(task.ID, task), continue
WStoreUnknown(w) ==
    /\ phase = "up"
    /\ wk[w].pc = "storeUnknown"
    /\ store' = UpdateTask(IdOf(wk[w].task), heap[wk[w].task])
    /\ wk' = [wk EXCEPT ![w] = IdleWorker]
    /\ UNCHANGED <<heap, queue, hist, sent>>
    /\ UNCHANGED Others

\* worker: result := runMain(...), the external run ends one way or another
\* (a run that exits with 0 has written its results subdirectory, one that
\* exits with 1 may have; wrote: whether it has)
WRun(w, out, wrote) ==
    /\ phase = "up"
    /\ wk[w].pc = "run"
    /\ wrote => world.disk /\ out \in {"exit0", "exit1"}
    /\ world.disk /\ out = "exit0" => wrote
    /\ wk' = [wk EXCEPT ![w] = [@ EXCEPT !.pc = "finish", !.result = runMain(out)]]
    /\ disk' = IF wrote
               THEN [disk EXCEPT ![heap[wk[w].task].type] =
                        Append(@, [task |-> IdOf(wk[w].task), ok |-> out = "exit0"])]
               ELSE disk
    /\ UNCHANGED <<heap, queue, store, hist, sent, hub>>
    /\ UNCHANGED Rest

\* worker: tq.update(task.ID, succeeded | failed + LastError, Result, FinishedAt),
\* then tq.broadcastTask(task)
WFinish(w) ==
    /\ phase = "up"
    /\ wk[w].pc = "finish"
    /\ LET id == IdOf(wk[w].task)
           h == update(id, FinishFn(heap[tasks[id]], wk[w].result))
       IN /\ heap' = h
          /\ hist' = Noted(h, id, heap)
          /\ sent' = Handed(h, wk[w].task)
    /\ wk' = [wk EXCEPT ![w].pc = After("decide")]
    /\ UNCHANGED <<queue, store>>
    /\ UNCHANGED Others

\* worker: the retry branch: tq.update(task.ID, pending, timestamps and result
\* cleared), tq.broadcastTask(task), time.AfterFunc(delay, tq.queue <- task)
WReset(w) ==
    /\ phase = "up"
    /\ wk[w].pc = "decide"
    /\ ShouldRetry(wk[w].result, heap[wk[w].task])
    /\ LET id == IdOf(wk[w].task)
           h == update(id, ResetFn(heap[tasks[id]]))
       IN /\ heap' = h
          /\ hist' = Noted(h, id, heap)
          /\ sent' = Handed(h, wk[w].task)
    /\ timers' = IF world.split THEN timers ELSE timers (+) SetToBag({wk[w].task})
    /\ wk' = [wk EXCEPT ![w].pc = After("storeFin")]
    /\ UNCHANGED <<phase, boot, clock, seq, tasks, queue, enq, store, runs,
                   nworkers, maxRetries, restarts, issued, trace,
                   pushed, resp, web, world, disk, hub, pipe, mu>>

\* the AfterFunc goroutine: tq.queue <- task
TimerFire(ref) ==
    /\ phase = "up"
    /\ BagIn(ref, timers)
    /\ Len(queue) < world.cap
    /\ queue' = Append(queue, ref)
    /\ timers' = timers (-) SetToBag({ref})
    /\ UNCHANGED <<phase, boot, clock, seq, tasks, heap, enq, wk, store, runs,
                   nworkers, maxRetries, restarts, issued, hist, sent, trace,
                   pushed, resp, web, world, disk, hub, pipe, mu>>

\* worker: the last tq.store.UpdateTask(task.ID, task); on result.OK
\* SaveRunIndex follows
WStoreFinished(w) ==
    /\ phase = "up"
    /\ \/ wk[w].pc = "storeFin"
       \/ wk[w].pc = "decide" /\ ~ShouldRetry(wk[w].result, heap[wk[w].task])
    /\ store' = UpdateTask(IdOf(wk[w].task), heap[wk[w].task])
    /\ wk' = [wk EXCEPT ![w] = IF wk[w].result.ok
                                THEN [@ EXCEPT !.pc = "index"]
                                ELSE IdleWorker]
    /\ UNCHANGED <<heap, queue, hist, sent>>
    /\ UNCHANGED Others

\* What an unsynchronised read of *task yields when it overlaps an update made
\* under tq.mu by another goroutine: every mix of the fields before (old) and
\* after (new) the update that is neither of the two
TornRead(old, new) ==
    {[new EXCEPT !.status = st, !.attempts = at, !.started = sa,
                 !.finished = fi, !.result = re, !.lastError = le] :
        st \in {old.status, new.status}, at \in {old.attempts, new.attempts},
        sa \in {old.started, new.started}, fi \in {old.finished, new.finished},
        re \in {old.result, new.result},
        le \in {old.lastError, new.lastError}} \ {old, new}

\* The data race of worker(): after time.AfterFunc the retried task can reach
\* worker w, whose tq.update (running) then overlaps the argument evaluation of
\* the last UpdateTask(task.ID, task) of worker v, which still holds the task
WStoreFinishedTorn(v, w) ==
    /\ phase = "up"
    /\ v # w
    /\ wk[v].pc = "storeFin"
    /\ wk[w].pc = "mark"
    /\ LET id == IdOf(wk[w].task)
           h == update(id, MarkRunningFn(heap[tasks[id]]))
       IN /\ tasks[id] = wk[v].task
          /\ heap[tasks[id]].attempts < MaxAttempts
          /\ heap' = h
          /\ hist' = Noted(h, id, heap)
          /\ sent' = Handed(h, wk[w].task)
          /\ \E row \in TornRead(heap[wk[v].task], h[wk[v].task]) :
                store' = UpdateTask(IdOf(wk[v].task), row)
    /\ wk' = [wk EXCEPT ![w].pc = After("storeRun"), ![v] = IdleWorker]
    /\ UNCHANGED queue
    /\ UNCHANGED Others

\* SaveRunIndex without the test latestDir == ""
RECURSIVE Latest(_, _, _)
\* findLatestDir's loop from entry i on, best the entry kept so far (0: none):
\* latestPath == "" || info.ModTime().After(latestTime); the modification
\* time of an entry is its position
Latest(entries, i, best) ==
    IF i > Len(entries) THEN best
    ELSE Latest(entries, i + 1, IF best = 0 \/ i > best THEN i ELSE best)

\* findLatestDir(baseDir): the subdirectory modified last, 0 if there is none
findLatestDir(type) == Latest(disk[type], 1, 0)

\* os.ReadDir(baseDir) as SaveRunIndex meets it: "missing" (an error),
\* "empty" (no subdirectory) or "found"
ReadDir(type, f) ==
    IF ~world.disk THEN f.dir
    ELSE IF disk[type] = <<>> THEN "missing" ELSE "found"

\* time.Now().Format(time.RFC3339), a string of fixed width
FormatRFC3339(now) == <<now \div 10, now % 10>>

\* the row SaveRunIndex inserts (result_dir: the type and the subdirectory,
\* 0 where the subdirectories are not followed)
RunRow(t, f, now) ==
    [task_id |-> t.id, task_type |-> t.type,
     result_dir |-> <<t.type, IF world.disk THEN findLatestDir(t.type) ELSE 0>>,
     symbol |-> f.symbol,
     summary |-> IF f.summary = "ok" THEN "json" ELSE "",
     created_at |-> FormatRFC3339(now)]

SaveRunIndexAnyDir(t, f, now) ==
    IF f.config = "unreadable" THEN [err |-> "read config", runs |-> runs]
    ELSE IF f.config = "noFields" THEN [err |-> "missing fields", runs |-> runs]
    ELSE IF ReadDir(t.type, f) = "missing" THEN [err |-> "read dir", runs |-> runs]
    ELSE [err |-> "", runs |-> Append(runs, RunRow(t, f, now))]

\* Storage.SaveRunIndex: the error it returns and the runs table it leaves.
\* An unreadable summary.json gives summary_json = "" and no error
SaveRunIndex(t, f, now) ==
    IF f.config = "unreadable" THEN [err |-> "read config", runs |-> runs]
    ELSE IF f.config = "noFields" THEN [err |-> "missing fields", runs |-> runs]
    ELSE IF ReadDir(t.type, f) = "missing" THEN [err |-> "read dir", runs |-> runs]
    ELSE IF ReadDir(t.type, f) = "empty" THEN [err |-> "no result dir", runs |-> runs]
    ELSE [err |-> "", runs |-> Append(runs, RunRow(t, f, now))]

\* worker: if result.OK { tq.store.SaveRunIndex(...) }, then the next task
WIndex(w, f) ==
    /\ phase = "up"
    /\ wk[w].pc = "index"
    /\ \E now \in clock..MaxClock :
          /\ clock' = now
          /\ runs' = SaveRunIndex(heap[wk[w].task], f, now).runs
    /\ wk' = [wk EXCEPT ![w] = IdleWorker]
    /\ UNCHANGED <<phase, boot, seq, tasks, heap, queue, timers, enq, store,
                   nworkers, maxRetries, restarts, issued, hist, sent, trace,
                   pushed, resp, web, world, disk, hub, pipe, mu>>

\* ------------------------------------------------------------- Hub
\* What a write to a connection does: it succeeds ("live"), it fails ("dead":
\* the peer is gone), or it does not return ("stalled": the peer does not
\* read, and no write deadline is set)
Kinds == {"live", "dead", "stalled"}

\* Broadcast's loop body with a failed connection closed but not deleted
WriteJSONKeepsFailed(h, conn) ==
    IF h.kind[conn] = "live"
    THEN [h EXCEPT !.got = Put(@, conn, TRUE)]
    ELSE [h EXCEPT !.got = Put(@, conn, FALSE), !.closed = @ \cup {conn}]

\* Broadcast's loop body on a connection whose write returns:
\* if err := conn.WriteJSON(payload); err != nil { conn.Close(); delete(...) }
WriteJSON(h, conn) ==
    IF h.kind[conn] = "live"
    THEN [h EXCEPT !.got = Put(@, conn, TRUE)]
    ELSE [h EXCEPT !.got = Put(@, conn, FALSE), !.closed = @ \cup {conn},
                   !.clients = @ \ {conn}]

RECURSIVE BroadcastFrom(_, _)
\* Broadcast's loop over the connections of todo, in any order (for conn :=
\* range h.clients): the hubs it can leave, and whether it returns (defer
\* h.mu.Unlock()) or stays in a write with h.mu held
BroadcastFrom(h, todo) ==
    IF todo = {} THEN {[hub |-> h, returns |-> TRUE]}
    ELSE UNION {IF h.kind[conn] = "stalled"
                THEN {[hub |-> [h EXCEPT !.mu = "held"], returns |-> FALSE]}
                ELSE BroadcastFrom(WriteJSON(h, conn), todo \ {conn}) : conn \in todo}

\* Hub.Broadcast(payload), called with h.mu free
Broadcast(h) == BroadcastFrom([h EXCEPT !.got = <<>>], h.clients)

\* handleWS: Upgrade, hub.Add(conn); the handler then reads until an error
handleWS(kind) ==
    /\ phase = "up"
    /\ hub.mu = "free"
    /\ Cardinality(DOMAIN hub.kind) < MaxConns
    /\ LET conn == Cardinality(DOMAIN hub.kind) + 1
       IN hub' = [hub EXCEPT !.clients = @ \cup {conn}, !.kind = Put(@, conn, kind)]
    /\ UNCHANGED <<Rest, heap, queue, store, hist, sent, wk, disk>>

\* handleWS: conn.ReadMessage() fails (the client left), then the deferred
\* hub.Remove(conn) and conn.Close()
handleWSReturn(conn) ==
    /\ phase = "up"
    /\ hub.mu = "free"
    /\ conn \in hub.clients
    /\ hub' = [hub EXCEPT !.clients = @ \ {conn}, !.closed = @ \cup {conn}]
    /\ UNCHANGED <<Rest, heap, queue, store, hist, sent, wk, disk>>

\* Enqueue: tq.broadcastTask(task), as a step of its own
EnqueuePublish(ref) ==
    /\ phase = "up"
    /\ ref \in DOMAIN enq /\ enq[ref] = "pub"
    /\ hub.mu = "free"
    /\ sent' = broadcastTask(heap, ref)
    /\ \E b \in Broadcast(hub) :
          /\ hub' = b.hub
          /\ enq' = [enq EXCEPT ![ref] = IF b.returns THEN "push" ELSE "stuck"]
    /\ UNCHANGED <<phase, boot, clock, seq, tasks, heap, queue, timers, wk, store,
                   runs, nworkers, maxRetries, restarts, issued, hist, trace,
                   pushed, resp, web, world, disk, pipe, mu>>

\* worker: tq.broadcastTask(task) after a tq.update, as a step of its own;
\* in the retry branch time.AfterFunc(delay, tq.queue <- task) follows it
WPublish(w) ==
    /\ phase = "up"
    /\ wk[w].pc \in {"pubRun", "pubFin", "pubReset", "pubUnknown"}
    /\ hub.mu = "free"
    /\ sent' = broadcastTask(heap, wk[w].task)
    /\ \E b \in Broadcast(hub) :
          /\ hub' = b.hub
          /\ wk' = [wk EXCEPT ![w].pc =
                       IF ~b.returns THEN "stuck"
                       ELSE CASE wk[w].pc = "pubRun" -> "storeRun"
                              [] wk[w].pc = "pubFin" -> "decide"
                              [] wk[w].pc = "pubReset" -> "storeFin"
                              [] wk[w].pc = "pubUnknown" -> "storeUnknown"]
          /\ timers' = IF b.returns /\ wk[w].pc = "pubReset"
                       THEN timers (+) SetToBag({wk[w].task})
                       ELSE timers
    /\ UNCHANGED <<phase, boot, clock, seq, tasks, heap, queue, enq, store,
                   runs, nworkers, maxRetries, restarts, issued, hist, trace,
                   pushed, resp, web, world, disk, pipe, mu>>

\* ------------------------------------------------------------- runMain
Streams == {"stdout", "stderr"}

\* everything but the call of runMain
Queue == <<phase, boot, clock, seq, tasks, heap, queue, timers, enq, wk, store,
           runs, nworkers, maxRetries, restarts, issued, hist, sent, trace,
           pushed, resp, web, world, disk, hub, mu>>

\* runMain after cmd.Start() succeeded and the two goroutines of streamLogs
\* are started.  written: lines the process has written to each pipe; read:
\* lines the scanner of that pipe has returned (buf.WriteString, logFn);
\* closed: the read end is closed; done: the goroutine has returned
runMainStart ==
    /\ pipe = NoPipe
    /\ pipe' = [pc |-> "wait", alive |-> TRUE,
                written |-> [s \in Streams |-> 0], read |-> [s \in Streams |-> 0],
                closed |-> [s \in Streams |-> FALSE], done |-> [s \in Streams |-> FALSE]]
    /\ UNCHANGED Queue

\* the external process writes one line to a stream
ProcessWrites(s) ==
    /\ pipe.pc # "none" /\ pipe.alive
    /\ pipe.written[s] < MaxLines
    /\ pipe' = [pipe EXCEPT !.written[s] = @ + 1]
    /\ UNCHANGED Queue

\* the external process exits, or the timeout of the context kills it
ProcessEnds ==
    /\ pipe.pc # "none" /\ pipe.alive
    /\ pipe' = [pipe EXCEPT !.alive = FALSE]
    /\ UNCHANGED Queue

\* streamLogs: scanner.Scan() returns a line of the pipe
streamLogsScan(s) ==
    /\ pipe.pc # "none" /\ ~pipe.done[s] /\ ~pipe.closed[s]
    /\ pipe.read[s] < pipe.written[s]
    /\ pipe' = [pipe EXCEPT !.read[s] = @ + 1]
    /\ UNCHANGED Queue

\* streamLogs: scanner.Scan() returns false, on the end of the pipe (all is
\* read and the process is gone) or on the error of reading a closed file
streamLogsReturn(s) ==
    /\ pipe.pc # "none" /\ ~pipe.done[s]
    /\ pipe.closed[s] \/ (~pipe.alive /\ pipe.read[s] = pipe.written[s])
    /\ pipe' = [pipe EXCEPT !.done[s] = TRUE]
    /\ UNCHANGED Queue

\* runMain: err := cmd.Wait(): returns once the process is gone, and closes
\* the read ends of StdoutPipe and StderrPipe
cmdWait ==
    /\ pipe.pc = "wait" /\ ~pipe.alive
    /\ pipe' = [pipe EXCEPT !.pc = "join", !.closed = [s \in Streams |-> TRUE]]
    /\ UNCHANGED Queue

\* runMain going on to the RunResponse without wg.Wait()
wgWaitNoJoin ==
    /\ pipe.pc = "join"
    /\ pipe' = [pipe EXCEPT !.pc = "returned"]
    /\ UNCHANGED Queue

\* runMain: wg.Wait(), then the RunResponse with stdoutBuf and stderrBuf
wgWait ==
    /\ pipe.pc = "join"
    /\ \A s \in Streams : pipe.done[s]
    /\ pipe' = [pipe EXCEPT !.pc = "returned"]
    /\ UNCHANGED Queue

RunMainStep ==
    \/ runMainStart
    \/ \E s \in Streams : ProcessWrites(s)
    \/ ProcessEnds
    \/ \E s \in Streams : streamLogsScan(s)
    \/ \E s \in Streams : streamLogsReturn(s)
    \/ cmdWait
    \/ wgWait

\* ------------------------------------------------------------- GET /api/v1/tasks/
\* What handleTaskGet answers: the status code and, with 200, the task as
\* json.Marshal read it; and, not part of the answer, the values *task had
\* between queue.Get and the end of writeJSON
TaskGetResponse(code, task, during) ==
    [req |-> <<"task">>, code |-> code, status |-> "", task |-> task, during |-> during]

\* the IDs handleTaskGet is tried on: none (the path ends in tasks/), and the
\* IDs of this second, one more than are issued
PathIDs == {<<>>} \cup {nextID(MaxClock, n) : n \in 1..(MaxTasks + 1)}

\* handleTaskGet while no update of the task is under way: 405, 400, 404 of
\* queue.Get, or writeJSON(w, 200, task)
handleTaskGet(method, id) ==
    /\ phase = "up"
    /\ resp' = IF method # "GET" THEN TaskGetResponse(405, NoTask, {})
               ELSE IF id = <<>> THEN TaskGetResponse(400, NoTask, {})
               ELSE IF id \notin DOMAIN tasks THEN TaskGetResponse(404, NoTask, {})
               ELSE TaskGetResponse(200, heap[tasks[id]], {heap[tasks[id]]})
    /\ UNCHANGED <<phase, boot, clock, seq, tasks, heap, queue, timers, enq, wk,
                   store, runs, nworkers, maxRetries, restarts, issued, hist,
                   sent, trace, pushed, web, world, disk, hub, pipe, mu>>

\* The data race of handleTaskGet: queue.Get returned the pointer the map
\* holds, and json.Marshal reads *task without tq.mu while worker w makes its
\* tq.update after the run (succeeded | failed, Result, FinishedAt)
handleTaskGetTorn(w) ==
    /\ phase = "up"
    /\ wk[w].pc = "finish"
    /\ LET id == IdOf(wk[w].task)
           h == update(id, FinishFn(heap[tasks[id]], wk[w].result))
       IN /\ heap' = h
          /\ hist' = Noted(h, id, heap)
          /\ sent' = Handed(h, wk[w].task)
          /\ \E read \in TornRead(heap[tasks[id]], h[tasks[id]]) :
                resp' = TaskGetResponse(200, read, {heap[tasks[id]], h[tasks[id]]})
    /\ wk' = [wk EXCEPT ![w].pc = After("decide")]
    /\ UNCHANGED <<phase, boot, clock, seq, tasks, queue, timers, enq, store,
                   runs, nworkers, maxRetries, restarts, issued, trace, pushed,
                   web, world, disk, hub, pipe, mu>>

\* ------------------------------------------------------------- GET /api/v1/runs
\* limit := 20, the limit handleRuns starts from
DefaultLimit == 20
\* n <= 200, the largest limit handleRuns takes from the request
MaxLimit == 200

Digits == <<"0", "1", "2", "3", "4", "5", "6", "7", "8", "9">>

RECURSIVE ParseUint(_, _)
\* the value of a string of decimal digits after the digits read as acc
ParseUint(v, acc) ==
    IF v = <<>> THEN acc
    ELSE ParseUint(Tail(v),
                   10 * acc + (CHOOSE d \in DOMAIN Digits : Digits[d] = Head(v)) - 1)

\* strconv.Atoi(v): an optional sign, then one decimal digit or more
Atoi(v) ==
    LET signed == v # <<>> /\ Head(v) \in {"+", "-"}
        digits == IF signed THEN Tail(v) ELSE v
    IN IF digits = <<>> \/ \E i \in DOMAIN digits : digits[i] \notin Range(Digits)
       THEN [err |-> TRUE, n |-> 0]
       ELSE [err |-> FALSE,
             n |-> IF signed /\ Head(v) = "-" THEN 0 - ParseUint(digits, 0)
                   ELSE ParseUint(digits, 0)]

\* handleRuns: the limit it passes on, for the limit parameter v
EffectiveLimit(v) ==
    IF v # <<>> /\ ~Atoi(v).err /\ Atoi(v).n > 0 /\ Atoi(v).n <= MaxLimit
    THEN Atoi(v).n
    ELSE DefaultLimit

\* A query parameter other than limit: its text without the white space
\* around it (s; the empty text is "" for a symbol, <<>> for an ID or a time)
\* and whether there is such white space
\* strings.TrimSpace(r.URL.Query().Get(...))
TrimSpace(raw) == raw.s

RunFilter(limit, q) ==
    [Limit |-> limit, TaskID |-> TrimSpace(q.task_id), Symbol |-> TrimSpace(q.symbol),
     From |-> TrimSpace(q.from), To |-> TrimSpace(q.to)]

\* buildRunQuery with the symbol clause left out
buildRunQueryNoSymbol(filter) ==
    (IF filter.TaskID # <<>> THEN <<[col |-> "task_id", op |-> "=", arg |-> filter.TaskID]>> ELSE <<>>)
    \o (IF filter.From # <<>> THEN <<[col |-> "created_at", op |-> ">=", arg |-> filter.From]>> ELSE <<>>)
    \o (IF filter.To # <<>> THEN <<[col |-> "created_at", op |-> "<=", arg |-> filter.To]>> ELSE <<>>)

\* buildRunQuery: one clause for every filter field that is not empty
buildRunQuery(filter) ==
    (IF filter.TaskID # <<>> THEN <<[col |-> "task_id", op |-> "=", arg |-> filter.TaskID]>> ELSE <<>>)
    \o (IF filter.Symbol # "" THEN <<[col |-> "symbol", op |-> "=", arg |-> filter.Symbol]>> ELSE <<>>)
    \o (IF filter.From # <<>> THEN <<[col |-> "created_at", op |-> ">=", arg |-> filter.From]>> ELSE <<>>)
    \o (IF filter.To # <<>> THEN <<[col |-> "created_at", op |-> "<=", arg |-> filter.To]>> ELSE <<>>)

\* " WHERE " + strings.Join(clauses, " AND ") on a row, or no WHERE without
\* clauses; created_at is TEXT and compares as text
Where(clauses, r) ==
    \A i \in DOMAIN clauses :
       LET c == clauses[i]
       IN CASE c.op = "=" -> r[c.col] = c.arg
            [] c.op = ">=" -> ~LexLess(r[c.col], c.arg)
            [] c.op = "<=" -> ~LexLess(c.arg, r[c.col])

\* ListRuns with ORDER BY id ASC
ListRunsAscending(filter) ==
    LET found == SelectSeq(runs, LAMBDA r : Where(buildRunQuery(filter), r))
    IN SubSeq(found, 1, IF filter.Limit < Len(found) THEN filter.Limit ELSE Len(found))

\* Storage.ListRuns: SELECT ... FROM runs WHERE ... ORDER BY id DESC LIMIT ?
\* (id is the rowid: the position in the table)
ListRuns(filter) ==
    LET rows == SelectSeq(runs, LAMBDA r : Where(buildRunQuery(filter), r))
        found == [i \in 1..Len(rows) |-> rows[Len(rows) + 1 - i]]
    IN SubSeq(found, 1, IF filter.Limit < Len(found) THEN filter.Limit ELSE Len(found))

\* What handleRuns answers: the status code and the rows of "runs"; and, not
\* part of the answer, the query (<<>> for a request that is not a GET), the
\* limit passed to ListRuns and the number of rows the table had
RunsResponse(code, q, limit, rows) ==
    [req |-> <<"runs">>, code |-> code, status |-> "", query |-> q,
     limit |-> limit, rows |-> rows, n |-> Len(runs)]

\* the limit parameters handleRuns is tried on: absent, "x", "0", "-1", "1",
\* "200", "201", "+5", " 5"
LimitValues ==
    {<<>>, <<"x">>, <<"0">>, <<"-", "1">>, <<"1">>, <<"2", "0", "0">>,
     <<"2", "0", "1">>, <<"+", "5">>, <<" ", "5">>}

\* the queries handleRuns is tried on: every limit without a filter, limit=1
\* with a symbol, and the filters (absent, blank, the first ID of second 0, a
\* symbol, a time of the clock) without a limit
Queries ==
    LET Absent == [s |-> <<>>, space |-> FALSE]
        NoSymbol == [s |-> "", space |-> FALSE]
    IN [limit : LimitValues, task_id : {Absent}, symbol : {NoSymbol},
        from : {Absent}, to : {Absent}]
       \cup
       [limit : {<<"1">>}, task_id : {Absent},
        symbol : {[s |-> sy, space |-> FALSE] : sy \in Symbols},
        from : {Absent}, to : {Absent}]
       \cup
       [limit : {<<>>},
        task_id : {Absent, [s |-> <<>>, space |-> TRUE],
                   [s |-> nextID(0, 1), space |-> FALSE]},
        symbol : {NoSymbol} \cup {[s |-> sy, space |-> sy # "BTCUSDT"] : sy \in Symbols},
        from : {Absent, [s |-> FormatRFC3339(MaxClock), space |-> FALSE]},
        to : {Absent, [s |-> FormatRFC3339(0), space |-> TRUE]}]

\* handleRuns (queue.store is never nil: main ends when newStorage fails)
handleRuns(method) ==
    /\ phase = "up"
    /\ IF method # "GET" THEN resp' = RunsResponse(405, <<>>, 0, <<>>)
       ELSE \E q \in Queries :
               LET filter == RunFilter(EffectiveLimit(q.limit), q)
               IN resp' = RunsResponse(200, q, filter.Limit, ListRuns(filter))
    /\ UNCHANGED <<phase, boot, clock, seq, tasks, heap, queue, timers, enq, wk,
                   store, runs, nworkers, maxRetries, restarts, issued, hist,
                   sent, trace, pushed, web, world, disk, hub, pipe, mu>>

\* ------------------------------------------------------------- restart
\* The process dies (everything in memory is lost, the database file stays)
\* and main runs again: newStorage, then newTaskQueue up to store.LoadTasks()
CrashRestart ==
    /\ phase = "up"
    /\ restarts < MaxRestarts
    /\ restarts' = restarts + 1
    /\ phase' = "boot"
    /\ boot' = LoadTasks
    /\ heap' = [ref \in Range(LoadTasks) |-> store[RowOf(IdOf(ref))]]
    /\ seq' = 0
    /\ tasks' = <<>>
    /\ queue' = <<>>
    /\ timers' = EmptyBag
    /\ enq' = <<>>
    /\ wk' = [w \in Workers |-> IdleWorker]
    /\ hist' = <<>>
    /\ sent' = <<>>
    /\ UNCHANGED <<clock, store, runs, nworkers, maxRetries, issued, trace,
                   pushed, resp, web, world, disk, hub, pipe, mu>>

RecoverFn(t) ==
    IF t.status \in {TaskPending, TaskRunning}
    THEN [t EXCEPT !.status = TaskPending, !.started = FALSE, !.finished = FALSE]
    ELSE t

\* newTaskQueue: one iteration of the loop over the loaded tasks; the send
\* blocks while the channel is full (the workers are not started yet)
BootStep ==
    /\ phase = "boot"
    /\ boot # <<>>
    /\ LET ref == Head(boot)
           t == heap[ref]
           requeue == t.status \in {TaskPending, TaskRunning}
       IN /\ requeue => Len(queue) < world.cap
          /\ tasks' = Put(tasks, t.id, ref)
          /\ heap' = [heap EXCEPT ![ref] = RecoverFn(t)]
          /\ queue' = IF requeue THEN Append(queue, ref) ELSE queue
          /\ hist' = IF trace THEN Put(hist, t.id, <<RecoverFn(t).status>>) ELSE hist
          /\ sent' = IF trace THEN Put(sent, t.id, <<>>) ELSE sent
    /\ boot' = Tail(boot)
    /\ UNCHANGED <<phase, clock, seq, timers, enq, wk, store, runs, nworkers,
                   maxRetries, restarts, issued, trace,
                   pushed, resp, web, world, disk, hub, pipe, mu>>

\* newTaskQueue: go tq.worker(i + 1) for every worker, return; main serves
BootDone ==
    /\ phase = "boot"
    /\ boot = <<>>
    /\ phase' = "up"
    /\ UNCHANGED <<boot, clock, seq, tasks, heap, queue, timers, enq, wk, store,
                   runs, nworkers, maxRetries, restarts, issued, hist, sent, trace,
                   pushed, resp, web, world, disk, hub, pipe, mu>>

\* ------------------------------------------------------------- Next
Refs == DOMAIN heap

Serve ==
    \/ handleBacktest
    \/ handleSweep
    \/ \E ref \in Refs : EnqueueSave(ref)
    \/ \E ref \in Refs : EnqueuePush(ref)
    \/ \E w \in Workers : WDequeue(w)
    \/ \E w \in Workers : WMarkRunning(w)
    \/ \E w \in Workers : WStoreRunning(w)
    \/ \E w \in Workers, out \in world.outcomes, wrote \in BOOLEAN : WRun(w, out, wrote)
    \/ \E w \in Workers : WFinish(w)
    \/ \E w \in Workers : WReset(w)
    \/ \E w \in Workers : WStoreFinished(w)
    \/ \E v, w \in Workers : WStoreFinishedTorn(v, w)
    \/ \E w \in Workers, f \in world.files : WIndex(w, f)
    \/ \E ref \in Refs : TimerFire(ref)

Next ==
    \/ Serve
    \/ CrashRestart
    \/ BootStep
    \/ BootDone

\* The queue under crashes and restarts
Spec == Init /\ [][Next]_vars

\* One process lifetime, both handlers, the status histories recorded
InitRun == InitWith(0..MaxRetriesLong, TRUE, FALSE) /\ world = PlainWorld

SpecRun == InitRun /\ [][Serve]_vars

\* One process lifetime with the submit handlers followed to their response,
\* all requests within one wall-clock second
InitHttp == InitAt({MaxRetriesFlag}, FALSE, TRUE, MaxClock) /\ world = PlainWorld

ServeHttp == Serve \/ \E ref \in Refs : Respond(ref)

SpecHttp == InitHttp /\ [][ServeHttp]_vars

\* One process lifetime in which Enqueue is also called with a type the
\* handlers never pass, all calls within one wall-clock second
InitDirect == InitAt(0..MaxRetriesFlag, TRUE, FALSE, MaxClock) /\ world = PlainWorld

ServeDirect ==
    \/ Serve
    \/ EnqueueOther
    \/ \E w \in Workers : WUnknown(w)
    \/ \E w \in Workers : WStoreUnknown(w)

SpecDirect == InitDirect /\ [][ServeDirect]_vars

\* One process lifetime with every outcome of a run and of the index
\* derivation, all requests within one wall-clock second
InitWorld == InitAt(0..MaxRetriesFlag, FALSE, FALSE, MaxClock) /\ world = FullWorld

SpecWorld == InitWorld /\ [][Serve]_vars

\* The world in which the runs exit with 0 or 1, every config has the same
\* fields, and the subdirectories the runs write are followed
DiskWorld ==
    [outcomes |-> {"exit0", "exit1"},
     files |-> {f \in IndexFiles : f.config = "ok" /\ f.summary = "ok"
                                    /\ f.dir = "found" /\ f.symbol = "BTCUSDT"},
     disk |-> TRUE, split |-> FALSE, cap |-> QueueCap]

InitDisk == InitAt(0..MaxRetriesFlag, FALSE, FALSE, MaxClock) /\ world = DiskWorld

\* One process lifetime with the results directories followed, all requests
\* within one wall-clock second
SpecDisk == InitDisk /\ [][Serve]_vars

InitHub ==
    /\ InitAt({0}, FALSE, FALSE, MaxClock)
    /\ world = [PlainWorld EXCEPT !.split = TRUE]

\* the steps of Serve without a retry (-max-retries 0) on backtests, every
\* broadcast a step of its own, and the WebSocket clients
ServeHub ==
    \/ handleBacktest
    \/ \E ref \in Refs : EnqueueSave(ref)
    \/ \E ref \in Refs : EnqueuePublish(ref)
    \/ \E ref \in Refs : EnqueuePush(ref)
    \/ \E w \in Workers : WDequeue(w)
    \/ \E w \in Workers : WMarkRunning(w)
    \/ \E w \in Workers : WPublish(w)
    \/ \E w \in Workers : WStoreRunning(w)
    \/ \E w \in Workers, out \in world.outcomes : WRun(w, out, FALSE)
    \/ \E w \in Workers : WFinish(w)
    \/ \E w \in Workers : WStoreFinished(w)
    \/ \E w \in Workers, f \in world.files : WIndex(w, f)
    \/ \E kind \in Kinds : handleWS(kind)
    \/ \E conn \in 1..MaxConns : handleWSReturn(conn)

\* One process lifetime without retries, with the clients of the hub
SpecHub == InitHub /\ [][ServeHub]_vars

\* One call of runMain whose cmd.Start() succeeds
SpecPipe == Init /\ [][RunMainStep]_vars

InitGet == InitAt({0}, FALSE, FALSE, MaxClock) /\ world = PlainWorld

\* the steps of Serve without a retry (-max-retries 0) on backtests, and
\* GET /api/v1/tasks/{id}
ServeGet ==
    \/ handleBacktest
    \/ \E ref \in Refs : EnqueueSave(ref)
    \/ \E ref \in Refs : EnqueuePush(ref)
    \/ \E w \in Workers : WDequeue(w)
    \/ \E w \in Workers : WMarkRunning(w)
    \/ \E w \in Workers : WStoreRunning(w)
    \/ \E w \in Workers, out \in world.outcomes : WRun(w, out, FALSE)
    \/ \E w \in Workers : WFinish(w)
    \/ \E w \in Workers : WStoreFinished(w)
    \/ \E w \in Workers, f \in world.files : WIndex(w, f)
    \/ \E method \in Methods, id \in PathIDs : handleTaskGet(method, id)
    \/ \E w \in Workers : handleTaskGetTorn(w)

\* One process lifetime without retries, with the reading of single tasks
SpecGet == InitGet /\ [][ServeGet]_vars

\* The world in which every run exits with 0 and writes what the index needs,
\* under configs of both symbols
ListWorld ==
    [outcomes |-> {"exit0"},
     files |-> {f \in IndexFiles : f.config = "ok" /\ f.summary = "ok" /\ f.dir = "found"},
     disk |-> FALSE, split |-> FALSE, cap |-> QueueCap]

InitList == InitAt({0}, FALSE, FALSE, 0) /\ nworkers = 1 /\ world = ListWorld

\* the steps of Serve that world allows (no run fails, nothing is retried)
\* on backtests, and GET /api/v1/runs
ServeList ==
    \/ handleBacktest
    \/ \E ref \in Refs : EnqueueSave(ref)
    \/ \E ref \in Refs : EnqueuePush(ref)
    \/ \E w \in Workers : WDequeue(w)
    \/ \E w \in Workers : WMarkRunning(w)
    \/ \E w \in Workers : WStoreRunning(w)
    \/ \E w \in Workers, out \in world.outcomes : WRun(w, out, FALSE)
    \/ \E w \in Workers : WFinish(w)
    \/ \E w \in Workers : WStoreFinished(w)
    \/ \E w \in Workers, f \in world.files : WIndex(w, f)
    \/ \E method \in Methods : handleRuns(method)

\* One process lifetime of one worker and of runs that succeed, with the
\* listing of the index
SpecList == InitList /\ [][ServeList]_vars

\* One process lifetime in which a SaveTask of Enqueue can fail, all requests
\* within one wall-clock second
InitStore == InitAt(0..MaxRetriesFlag, FALSE, FALSE, MaxClock) /\ world = PlainWorld

ServeStore == Serve \/ \E ref \in Refs : EnqueueSaveFails(ref)

SpecStore == InitStore /\ [][ServeStore]_vars

\* worker: result := runMain(tq.cfg, func(stream, line) {...}, args...) up to
\* the start of the two streamLogs goroutines
\* (pipe.pc "taken": the last call has returned its RunResponse)
WRunStart(w) ==
    /\ wk[w].pc = "run"
    /\ pipe.pc \in {"none", "taken"}
    /\ pipe' = [pc |-> "wait", alive |-> TRUE,
                written |-> [s \in Streams |-> 0], read |-> [s \in Streams |-> 0],
                closed |-> [s \in Streams |-> FALSE], done |-> [s \in Streams |-> FALSE]]
    /\ wk' = [wk EXCEPT ![w].pc = "runMain"]
    /\ UNCHANGED <<phase, boot, clock, seq, tasks, heap, queue, timers, enq,
                   store, runs, nworkers, maxRetries, restarts, issued, hist, sent,
                   trace, pushed, resp, web, world, disk, hub, mu>>

\* streamLogs in the call of worker w: scanner.Scan() returns a line and
\* logFn(stream, line) runs tq.broadcastLog(task.ID, stream, line), a task_log
\* event of the task
logFn(w, s) ==
    /\ wk[w].task # NoTask
    /\ pipe.pc # "none" /\ ~pipe.done[s] /\ ~pipe.closed[s]
    /\ pipe.read[s] < pipe.written[s]
    /\ pipe' = [pipe EXCEPT !.read[s] = @ + 1]
    /\ sent' = [sent EXCEPT ![IdOf(wk[w].task)] = Append(@, "task_log")]
    /\ UNCHANGED <<phase, boot, clock, seq, tasks, heap, queue, timers, enq, wk,
                   store, runs, nworkers, maxRetries, restarts, issued, hist,
                   trace, pushed, resp, web, world, disk, hub, mu>>

\* worker: runMain returns the RunResponse of a run that ended as out
WRunReturn(w, out) ==
    /\ wk[w].pc = "runMain"
    /\ pipe.pc = "returned"
    /\ pipe' = [pipe EXCEPT !.pc = "taken"]
    /\ wk' = [wk EXCEPT ![w] = [@ EXCEPT !.pc = "finish", !.result = runMain(out)]]
    /\ UNCHANGED <<phase, boot, clock, seq, tasks, heap, queue, timers, enq,
                   store, runs, nworkers, maxRetries, restarts, issued, hist, sent,
                   trace, pushed, resp, web, world, disk, hub, mu>>

InitLog == InitAt({MaxRetriesFlag}, TRUE, FALSE, MaxClock) /\ nworkers = 1 /\ world = PlainWorld

\* the steps of Serve of one worker on backtests, with the call of runMain
\* followed through its pipes (cmd.Start fails, or the process is started)
ServeLog ==
    \/ handleBacktest
    \/ \E ref \in Refs : EnqueueSave(ref)
    \/ \E ref \in Refs : EnqueuePush(ref)
    \/ \E w \in Workers : WDequeue(w)
    \/ \E w \in Workers : WMarkRunning(w)
    \/ \E w \in Workers : WStoreRunning(w)
    \/ \E w \in Workers : WRun(w, "startError", FALSE)
    \/ \E w \in Workers : WRunStart(w)
    \/ \E s \in Streams : ProcessWrites(s)
    \/ ProcessEnds
    \/ \E w \in Workers, s \in Streams : logFn(w, s)
    \/ \E s \in Streams : streamLogsReturn(s)
    \/ cmdWait
    \/ wgWait
    \/ \E w \in Workers, out \in world.outcomes : WRunReturn(w, out)
    \/ \E w \in Workers : WFinish(w)
    \/ \E w \in Workers : WReset(w)
    \/ \E w \in Workers : WStoreFinished(w)
    \/ \E w \in Workers, f \in world.files : WIndex(w, f)
    \/ \E ref \in Refs : TimerFire(ref)

\* One process lifetime of one worker, with the log lines of each run
SpecLog == InitLog /\ [][ServeLog]_vars

\* update: tq.mu.Lock(), by worker w about to mark its task running or to
\* record the result of the run
updateLock(w) ==
    /\ phase = "up"
    /\ wk[w].pc \in {"mark", "finish"}
    /\ mu = 0
    /\ mu' = w
    /\ UNCHANGED <<phase, boot, clock, seq, tasks, heap, queue, timers, enq, wk,
                   store, runs, nworkers, maxRetries, restarts, issued, hist, sent,
                   trace, pushed, resp, web, world, disk, hub, pipe>>

\* update: fn(task) under tq.mu
updateFn(w) == mu = w /\ (WMarkRunning(w) \/ WFinish(w))

\* update: the deferred tq.mu.Unlock(), after fn(task)
updateUnlock(w) ==
    /\ phase = "up"
    /\ wk[w].pc \in {"pubRun", "pubFin"}
    /\ mu = w
    /\ mu' = 0
    /\ UNCHANGED <<phase, boot, clock, seq, tasks, heap, queue, timers, enq, wk,
                   store, runs, nworkers, maxRetries, restarts, issued, hist, sent,
                   trace, pushed, resp, web, world, disk, hub, pipe>>

\* broadcastTask called inside update, with tq.mu held
broadcastTaskLocked(w) == WPublish(w)

\* worker: tq.broadcastTask(task), called when tq.update has returned
broadcastTaskUnlocked(w) == mu # w /\ WPublish(w)

\* the steps of ServeHub with the Lock and Unlock of tq.update as steps of
\* their own (Enqueue takes tq.mu for its map insert)
ServeLock ==
    \/ mu = 0 /\ handleBacktest
    \/ \E ref \in Refs : EnqueueSave(ref)
    \/ \E ref \in Refs : EnqueuePublish(ref)
    \/ \E ref \in Refs : EnqueuePush(ref)
    \/ \E w \in Workers : WDequeue(w)
    \/ \E w \in Workers : updateLock(w)
    \/ \E w \in Workers : updateFn(w)
    \/ \E w \in Workers : updateUnlock(w)
    \/ \E w \in Workers : broadcastTaskUnlocked(w)
    \/ \E w \in Workers : WStoreRunning(w)
    \/ \E w \in Workers, out \in world.outcomes : WRun(w, out, FALSE)
    \/ \E w \in Workers : WStoreFinished(w)
    \/ \E w \in Workers, f \in world.files : WIndex(w, f)
    \/ \E kind \in Kinds : handleWS(kind)
    \/ \E conn \in 1..MaxConns : handleWSReturn(conn)

\* One process lifetime without retries, with the clients of the hub and the
\* task-map lock
SpecLock == InitHub /\ [][ServeLock]_vars

InitFifo ==
    /\ InitAt({MaxRetriesFlag}, FALSE, FALSE, MaxClock)
    /\ world = [PlainWorld EXCEPT !.cap = QueueCapLong]

\* the steps of Serve on a channel that holds more than one task, every
\* Enqueue call starting when the calls before it have returned
ServeFifo ==
    \/ enq = <<>> /\ handleBacktest
    \/ enq = <<>> /\ handleSweep
    \/ \E ref \in Refs : EnqueueSave(ref)
    \/ \E ref \in Refs : EnqueuePush(ref)
    \/ \E w \in Workers : WDequeue(w)
    \/ \E w \in Workers : WMarkRunning(w)
    \/ \E w \in Workers : WStoreRunning(w)
    \/ \E w \in Workers, out \in world.outcomes : WRun(w, out, FALSE)
    \/ \E w \in Workers : WFinish(w)
    \/ \E w \in Workers : WReset(w)
    \/ \E w \in Workers : WStoreFinished(w)
    \/ \E v, w \in Workers : WStoreFinishedTorn(v, w)
    \/ \E w \in Workers, f \in world.files : WIndex(w, f)
    \/ \E ref \in Refs : TimerFire(ref)

\* One process lifetime of Enqueue calls one after the other
SpecFifo == InitFifo /\ [][ServeFifo]_vars

\* every step of the queue: the two handlers, Enqueue with a type no handler
\* passes, the workers, crashes and restarts
ServeAll ==
    \/ ServeDirect
    \/ CrashRestart
    \/ BootStep
    \/ BootDone

\* The queue with tasks of every type under crashes and restarts, all
\* requests within one wall-clock second
SpecAll == InitStore /\ [][ServeAll]_vars

\* One process lifetime under the scheduling Go guarantees: every goroutine
\* that can take a step eventually does (workers, Enqueue calls, AfterFunc
\* goroutines), and every external run ends
WorkerStep(w) ==
    /\ w \in Workers
    /\ \/ WDequeue(w)
       \/ WMarkRunning(w)
       \/ WStoreRunning(w)
       \/ \E out \in world.outcomes, wrote \in BOOLEAN : WRun(w, out, wrote)
       \/ WFinish(w)
       \/ WReset(w)
       \/ WStoreFinished(w)
       \/ \E f \in world.files : WIndex(w, f)

EnqueueStep == \E ref \in Refs : EnqueueSave(ref) \/ EnqueuePush(ref)
TimerStep == \E ref \in Refs : TimerFire(ref)

SpecLive ==
    /\ Init
    /\ [][Serve]_vars
    /\ \A w \in 1..MaxWorkers : WF_vars(WorkerStep(w))
    /\ WF_vars(EnqueueStep)
    /\ WF_vars(TimerStep)

\* ------------------------------------------------------------- claims
Task(id) == heap[tasks[id]]
Executing(w) == wk[w].pc = "run"
AllIDs == {nextID(c, n) : c \in 0..MaxClock, n \in 1..MaxTasks}

\* nothing can touch the task any more in this lifetime: no Enqueue call,
\* channel slot, worker or timer holds an object with its ID
Ended(id) ==
    /\ id \in DOMAIN tasks
    /\ \A ref \in DOMAIN enq : IdOf(ref) # id
    /\ \A i \in DOMAIN queue : IdOf(queue[i]) # id
    /\ \A w \in Workers : wk[w].task = NoTask \/ IdOf(wk[w].task) # id
    /\ \A ref \in DOMAIN heap : IdOf(ref) = id => ~BagIn(ref, timers)

\* terminal as Get shows it: succeeded, or failed with the retries used up
Terminal(id) ==
    /\ id \in DOMAIN tasks
    /\ \/ Task(id).status = TaskSucceeded
       \/ Task(id).status = TaskFailed /\ Task(id).attempts > Task(id).maxRetries

Count(seqn, x) == Cardinality({i \in DOMAIN seqn : seqn[i] = x})

\* C1: in every reachable state, restarts included, every task has
\* attempts <= max_retries + 1
C1_AttemptsBounded ==
    \A id \in DOMAIN tasks : Task(id).attempts <= Task(id).maxRetries + 1

\* C2: no two workers run the external command for one task ID at once, no
\* task ID is twice in the work channel, and none is in the channel while a
\* worker runs it
C2_SingleHolder ==
    /\ \A v, w \in Workers :
          v # w /\ Executing(v) /\ Executing(w) => IdOf(wk[v].task) # IdOf(wk[w].task)
    /\ \A i, j \in DOMAIN queue : i # j => IdOf(queue[i]) # IdOf(queue[j])
    /\ \A w \in Workers : \A i \in DOMAIN queue :
          Executing(w) => IdOf(queue[i]) # IdOf(wk[w].task)

\* C3: under fair scheduling every task Enqueue was called for eventually
\* shows a terminal status, after at most max_retries + 1 executions, also
\* when more tasks are submitted than the channel holds or the workers take
C3_EventuallyTerminal ==
    \A id \in AllIDs :
        (id \in DOMAIN tasks) ~>
            (Terminal(id) /\ Task(id).attempts <= Task(id).maxRetries + 1)

C3_Witness ==
    /\ Cardinality(DOMAIN tasks) > QueueCap
    /\ Cardinality(DOMAIN tasks) > nworkers
    /\ \A id \in DOMAIN tasks : Terminal(id)
    /\ \E id \in DOMAIN tasks : Task(id).status = TaskFailed /\ Task(id).attempts = 2

\* C4: a task the store holds as running with attempts = k at startup is
\* picked up again and its attempts go on from k: when a worker marks a
\* reloaded task running, the task shows the reloaded count plus one
C4_AttemptsContinue ==
    [][\A w \in Workers :
          (/\ wk[w].pc = "mark" /\ wk'[w].pc = "storeRun"
           /\ wk[w].task[2] = "L")
          => Task(IdOf(wk[w].task))'.attempts = heap[wk[w].task].attempts + 1]_vars

\* C5: startup recovery always completes, however many pending or running
\* tasks the store holds: newTaskQueue never waits on a full channel
C5_BootCompletes ==
    ~(/\ phase = "boot"
      /\ boot # <<>>
      /\ heap[Head(boot)].status \in {TaskPending, TaskRunning}
      /\ Len(queue) = QueueCap)

\* C6: once a task is succeeded, or failed with attempts > max_retries, its
\* status never changes: a step of the running process keeps it, and a crash
\* finds the same status in the store, so no restart runs the task again
C6_TerminalStays ==
    [][\A id \in DOMAIN tasks :
          Terminal(id) =>
             IF phase' = "boot" /\ phase = "up"
             THEN RowOf(id) # 0 /\ store[RowOf(id)].status = Task(id).status
             ELSE id \in DOMAIN tasks' /\ Task(id)'.status = Task(id).status]_vars

\* C7: without restarts a task whose every execution failed ends failed with
\* attempts = max_retries + 1 and a non-empty last_error after exactly
\* max_retries + 1 executions; with max_retries = 0 it is never pending again
C7_FailsAfterAllRetries ==
    \A id \in DOMAIN tasks :
        /\ (Ended(id) /\ Task(id).status # TaskSucceeded) =>
              /\ Task(id).status = TaskFailed
              /\ Task(id).attempts = Task(id).maxRetries + 1
              /\ Task(id).lastError # ""
              /\ Count(hist[id], TaskRunning) = Task(id).maxRetries + 1
        /\ Task(id).maxRetries = 0 => Count(hist[id], TaskPending) = 1

C7_Witness ==
    \E id \in DOMAIN tasks :
        /\ Ended(id) /\ Task(id).status = TaskFailed
        /\ Task(id).maxRetries = 1 /\ Task(id).attempts = 2

\* C8 as stated: with max_retries = 2 and every execution failing, the
\* statuses stored and broadcast are pending, running three times over, then
\* failed, with attempts = 3
C8_StatusSequenceClaimed ==
    \A id \in DOMAIN tasks :
        (Ended(id) /\ Task(id).maxRetries = 2 /\ Task(id).status # TaskSucceeded) =>
            /\ hist[id] = <<TaskPending, TaskRunning, TaskPending, TaskRunning,
                            TaskPending, TaskRunning, TaskFailed>>
            /\ sent[id] = hist[id]
            /\ Task(id).attempts = 3

\* C8 as amended: every failed execution is first stored and broadcast as
\* failed and only then reset to pending
C8_StatusSequence ==
    \A id \in DOMAIN tasks :
        (Ended(id) /\ Task(id).maxRetries = 2 /\ Task(id).status # TaskSucceeded) =>
            /\ hist[id] = <<TaskPending, TaskRunning, TaskFailed,
                            TaskPending, TaskRunning, TaskFailed,
                            TaskPending, TaskRunning, TaskFailed>>
            /\ sent[id] = hist[id]
            /\ Task(id).attempts = 3

C8_Witness ==
    \E id \in DOMAIN tasks :
        Ended(id) /\ Task(id).maxRetries = 2 /\ Task(id).status = TaskFailed

\* C9: with W workers at most W tasks are running in any reachable state,
\* also with more tasks than workers and across retries and restarts
C9_RunningAtMostWorkers ==
    Cardinality({id \in DOMAIN tasks : Task(id).status = TaskRunning}) <= nworkers

C9_Witness ==
    /\ restarts = 1
    /\ Cardinality(DOMAIN tasks) > nworkers
    /\ Cardinality({id \in DOMAIN tasks : Task(id).status = TaskRunning}) = nworkers
    /\ \E id \in DOMAIN tasks : Task(id).status = TaskPending /\ Task(id).attempts = 1

\* C10: no two Enqueue calls ever produce the same task ID, in one process or
\* across a restart
C10_UniqueIDs ==
    \A i, j \in DOMAIN issued : i # j => issued[i] # issued[j]

\* C11: task IDs sort by creation order: an Enqueue call that starts after
\* another one returned, in the same process or after a restart, gets an ID
\* that is strictly greater as a string
C11_SortedByCreation ==
    [][Len(issued') > Len(issued) =>
          \A p \in pushed : StrLess(p[1], issued'[Len(issued')])]_vars

\* C12: a task is saved before it is pushed, so from its push on the store
\* holds it (its ID with its type) at every point a crash can happen, and the
\* next startup reloads it and, unless it is finished, puts it on the channel
\* again instead of waiting on the full channel for ever
C12_PushedSurvives ==
    /\ \A p \in pushed :
          \E i \in DOMAIN store : store[i].id = p[1] /\ store[i].type = p[2]
    /\ ~(/\ phase = "boot"
          /\ boot # <<>>
          /\ <<IdOf(Head(boot)), heap[Head(boot)].type>> \in pushed
          /\ heap[Head(boot)].status \in {TaskPending, TaskRunning}
          /\ Len(queue) = QueueCap)

\* C13: the response to a successful POST /api/v1/backtest or /api/v1/sweep
\* reports status pending, whatever the workers did in the meantime
C13_ResponsePending ==
    resp.code = 200 => resp.status = TaskPending

C14_UnknownTypeFailsOnce ==
    \A id \in DOMAIN tasks :
        Task(id).type \notin TaskTypes =>
            /\ \A w \in Workers : wk[w].pc \in {"run", "finish", "decide", "storeFin"}
                                     => IdOf(wk[w].task) # id
            /\ hist[id] \in {<<TaskPending>>, <<TaskPending, TaskRunning>>,
                              <<TaskPending, TaskRunning, TaskFailed>>}
            /\ ~BagIn(tasks[id], timers)
            /\ (\E i \in DOMAIN queue : IdOf(queue[i]) = id) => hist[id] = <<TaskPending>>
            /\ Ended(id) => Task(id).status = TaskFailed /\ Task(id).attempts = 1

C14_Witness ==
    \E id \in DOMAIN tasks :
        /\ Task(id).type \notin TaskTypes
        /\ Ended(id)
        /\ Task(id).status = TaskFailed
        /\ Task(id).maxRetries > 0
        /\ RowOf(id) # 0 /\ store[RowOf(id)].status = TaskFailed

\* C15: Enqueue called with a type other than backtest or sweep adds no task
\* to the task map, saves nothing and pushes nothing on the work channel
C15_UnknownTypeNeverEnters ==
    /\ \A id \in DOMAIN tasks : Task(id).type \in TaskTypes
    /\ \A i \in DOMAIN store : store[i].type \in TaskTypes
    /\ \A i \in DOMAIN queue : heap[queue[i]].type \in TaskTypes

\* C17: an execution attempt ends succeeded if and only if the process exited
\* with code 0; a non-zero exit, a failed start (exit code -1) and a timeout
\* kill end it failed with ok = false, and the attempt is then retried if and
\* only if attempts <= max_retries
C17_SucceededIffExitZero ==
    [][\A w \in Workers :
          /\ (wk[w].pc = "finish" /\ wk'[w].pc = "decide") =>
                LET r == wk'[w].result
                    t == heap'[wk'[w].task]
                IN /\ t.status = TaskSucceeded <=> r.exitCode = 0
                   /\ r.exitCode # 0 => ~r.ok /\ t.status = TaskFailed
          /\ (wk[w].pc = "decide" /\ wk'[w].pc # "decide") =>
                LET r == wk[w].result
                    t == heap[wk[w].task]
                IN (/\ wk'[w].pc = "storeFin"
                    /\ BagIn(wk[w].task, timers')
                    /\ heap'[wk[w].task].status = TaskPending)
                   <=> (r.exitCode # 0 /\ t.attempts <= t.maxRetries)]_vars

C17_Witness ==
    /\ \E w \in Workers : /\ wk[w].pc = "storeFin"
                          /\ wk[w].result.error = "signal: killed"
                          /\ wk[w].result.exitCode = -1
    /\ \E id \in DOMAIN tasks : /\ Task(id).lastError = "exec: not found"
                                /\ Task(id).status = TaskFailed
                                /\ Task(id).attempts = Task(id).maxRetries + 1

\* C18: the runs table never holds two rows with the same task_id, across
\* retries and the re-executions after a crash and restart
C18_OneIndexRowPerTask ==
    \A i, j \in DOMAIN runs : i # j => runs[i].task_id # runs[j].task_id

\* C19: when SaveRunIndex returns an error (config unreadable, a required
\* field empty, no output subdirectory) no runs row is inserted, and the task
\* is succeeded in memory and in the store when the worker leaves it, is not
\* on the channel, on a timer or with a worker that would run it, and stays
\* succeeded in memory and in the store from then on
C19_IndexErrorKeepsSucceeded ==
    [][/\ \A w \in Workers :
            (wk[w].pc = "index" /\ wk'[w].pc # "index") =>
               LET ref == wk[w].task
                   id == IdOf(ref)
               IN /\ \A f \in world.files :
                        (f.config # "ok" \/ f.dir # "found") =>
                            /\ SaveRunIndex(heap[ref], f, clock).err # ""
                            /\ SaveRunIndex(heap[ref], f, clock).runs = runs
                  /\ runs' = runs =>
                        /\ heap'[tasks'[id]].status = TaskSucceeded
                        /\ store'[RowOf(id)].status = TaskSucceeded
                        /\ \A i \in DOMAIN queue' : IdOf(queue'[i]) # id
                        /\ ~BagIn(ref, timers')
                        /\ \A v \in Workers :
                              wk'[v].task = ref => wk'[v].pc = "storeFin"
       /\ \A id \in DOMAIN tasks :
            /\ Task(id).status = TaskSucceeded
                  => heap'[tasks'[id]].status = TaskSucceeded
            /\ (RowOf(id) # 0 /\ store[RowOf(id)].status = TaskSucceeded)
                  => store'[RowOf(id)].status = TaskSucceeded]_vars

C19_Witness ==
    /\ world = FullWorld
    /\ \E id \in DOMAIN tasks :
          /\ Ended(id)
          /\ Task(id).status = TaskSucceeded
          /\ store[RowOf(id)].status = TaskSucceeded
          /\ \A i \in DOMAIN runs : runs[i].task_id # id

\* C20: when summary.json in the located output directory is unreadable or
\* missing, the index derivation fails and no runs row is written for the
\* task: every row of the table carries a summary that was read
C20_NoRowWithoutSummary ==
    \A i \in DOMAIN runs : runs[i].summary # ""

\* C21: the result_dir of every runs row is the subdirectory written by the
\* successful run of the task of that row
C21_OwnResultDir ==
    \A i \in DOMAIN runs :
       LET dir == disk[runs[i].result_dir[1]][runs[i].result_dir[2]]
       IN dir.task = runs[i].task_id /\ dir.ok

\* a step in which a Broadcast is called, and whether the call returns
Broadcasting ==
    \/ \E w \in Workers : wk[w].pc \in {"pubRun", "pubFin", "pubReset", "pubUnknown"}
                             /\ wk'[w].pc # wk[w].pc
    \/ \E ref \in DOMAIN enq : enq[ref] = "pub" /\ enq'[ref] # "pub"
Blocked ==
    \/ \E w \in Workers : wk[w].pc = "stuck"
    \/ \E ref \in DOMAIN enq : enq[ref] = "stuck"

\* C22: a Broadcast that meets only connections whose write succeeds or fails
\* returns to its caller after one write to every registered connection;
\* every connection whose write fails is closed and removed in that call,
\* every connection whose write succeeds stays registered, and in no call is
\* another connection removed
C22_BroadcastDropsOnlyFailed ==
    [][Broadcasting =>
         /\ \A conn \in hub.clients :
               /\ conn \notin hub'.clients =>
                     /\ hub.kind[conn] = "dead"
                     /\ conn \in hub'.closed
               /\ (conn \in DOMAIN hub'.got /\ hub'.got[conn]) =>
                     /\ hub.kind[conn] = "live"
                     /\ conn \in hub'.clients
               /\ (conn \in DOMAIN hub'.got /\ ~hub'.got[conn]) =>
                     conn \notin hub'.clients
         /\ hub'.clients \subseteq hub.clients
         /\ (\A conn \in hub.clients : hub.kind[conn] # "stalled") =>
               /\ ~Blocked'
               /\ DOMAIN hub'.got = hub.clients]_vars

C22_Witness ==
    \E dead, live \in DOMAIN hub.got :
       /\ ~hub.got[dead] /\ dead \notin hub.clients /\ dead \in hub.closed
       /\ hub.got[live] /\ live \in hub.clients /\ live \notin hub.closed
       /\ ~Blocked

\* C23: no Broadcast stays in a write: no worker and no Enqueue call is ever
\* held in Broadcast by a connection whose write does not return
C23_PublisherNeverBlocked == ~Blocked

\* C24: the status carried by each task_update is the status the task had at
\* that transition: when a worker has made a tq.update (running, succeeded |
\* failed, pending of the retry) of task.ID and broadcasts *task, the status
\* it broadcasts is the one the task of that ID has just taken
C24_EventCarriesTransition ==
    [][\A w \in Workers :
          (/\ phase' = "up"
           /\ \/ wk[w].pc = "mark" /\ wk'[w].pc = "storeRun"
              \/ wk[w].pc = "finish" /\ wk'[w].pc = "decide"
              \/ wk[w].pc = "decide" /\ wk'[w].pc = "storeFin")
          => heap'[wk[w].task].status = heap'[tasks'[IdOf(wk[w].task)]].status]_vars

\* C25: every line the process wrote to stdout or stderr before it ended is in
\* the captured output when runMain returns
C25_NoLineLost ==
    pipe.pc = "returned" => \A s \in Streams : pipe.read[s] = pipe.written[s]

\* C26: the task a GET /api/v1/tasks/{id} answers with is the value the task
\* had at one instant between queue.Get and the response
C26_ConsistentSnapshot ==
    (resp.req = <<"task">> /\ resp.code = 200) => resp.task \in resp.during

\* whether row r satisfies every filter field of query q that is not blank
Matches(q, r) ==
    /\ q.task_id.s # <<>> => r.task_id = q.task_id.s
    /\ q.symbol.s # "" => r.symbol = q.symbol.s
    /\ q.from.s # <<>> => (r.created_at = q.from.s \/ LexLess(q.from.s, r.created_at))
    /\ q.to.s # <<>> => (r.created_at = q.to.s \/ LexLess(r.created_at, q.to.s))

\* whether the last response is a list of runs
Listed == resp.req = <<"runs">> /\ resp.code = 200

\* C27: ListRuns returns the matching runs newest first and cut to the limit:
\* the rows of an answer of GET /api/v1/runs are rows of the table in
\* descending rowid order, as many as match up to the limit, and every
\* matching row left out is older than every row returned (so limit=1 on two
\* rows returns the row created last)
C27_NewestFirstUpToLimit ==
    Listed =>
       LET rows == resp.rows
           matching == {i \in 1..resp.n : Matches(resp.query, runs[i])}
           RowId(r) == CHOOSE i \in DOMAIN runs : runs[i] = r
       IN /\ \A k \in DOMAIN rows : rows[k] \in Range(SubSeq(runs, 1, resp.n))
          /\ \A k, l \in DOMAIN rows : k < l => RowId(rows[k]) > RowId(rows[l])
          /\ Len(rows) = IF resp.limit < Cardinality(matching)
                         THEN resp.limit ELSE Cardinality(matching)
          /\ \A i \in matching :
                runs[i] \notin Range(rows) => \A k \in DOMAIN rows : RowId(rows[k]) > i

C27_Witness ==
    /\ Listed
    /\ resp.query.limit = <<"1">>
    /\ resp.query.symbol.s = ""
    /\ resp.n = 2
    /\ resp.rows = <<runs[2]>>

\* C28: ListRuns returns only rows that satisfy every filter field that is
\* not empty, and leaves out no matching row unless the limit is reached
C28_OnlyAndAllMatching ==
    Listed =>
       /\ \A k \in DOMAIN resp.rows : Matches(resp.query, resp.rows[k])
       /\ Len(resp.rows) < resp.limit =>
             \A i \in 1..resp.n :
                Matches(resp.query, runs[i]) => runs[i] \in Range(resp.rows)

C28_Witness ==
    /\ Listed
    /\ resp.n = 2
    /\ resp.query.symbol.s = "BTCUSDT"
    /\ runs[1].symbol = "BTCUSDT"
    /\ runs[2].symbol # "BTCUSDT"
    /\ resp.rows = <<runs[1]>>

\* C29: GET /api/v1/runs applies the limit 20 when the parameter is absent or
\* no positive integer, the requested value from 1 to 200, and 200 when the
\* requested value is greater than 200
C29_LimitCapped ==
    Listed =>
       LET v == resp.query.limit
       IN resp.limit = IF v = <<>> \/ Atoi(v).err \/ Atoi(v).n <= 0 THEN 20
                       ELSE IF Atoi(v).n <= 200 THEN Atoi(v).n
                       ELSE 200

\* C31: SaveTask and UpdateTask are upserts by ID: after the SaveTask of
\* Enqueue and after the UpdateTask that follows the running update, the
\* tasks table holds exactly one row of the task's ID, with its status
C31_UpsertByID ==
    [][/\ \A ref \in DOMAIN enq :
            (enq[ref] = "save" /\ enq'[ref] # "save" /\ store' # store) =>
               /\ Cardinality({i \in DOMAIN store' : store'[i].id = IdOf(ref)}) = 1
               /\ \E i \in DOMAIN store' : store'[i] = heap[ref]
       /\ \A w \in Workers :
            (wk[w].pc = "storeRun" /\ wk'[w].pc = "run") =>
               /\ Cardinality({i \in DOMAIN store' : store'[i].id = IdOf(wk[w].task)}) = 1
               /\ \E i \in DOMAIN store' : store'[i] = heap[wk[w].task]]_vars

\* C30: every status transition of a task in memory is written to the store
\* with that status before the next one: whenever the status of a task
\* changes, the store row holds the status the task is leaving
C30_WrittenThrough ==
    [][\A id \in DOMAIN tasks :
          (id \in DOMAIN tasks' /\ heap'[tasks'[id]].status # Task(id).status) =>
             /\ RowOf(id) # 0
             /\ store[RowOf(id)].status = Task(id).status]_vars

\* C32: the retry reset takes the task from failed to pending and clears
\* started_at, finished_at and result, leaving every other field and every
\* other task as it was; it does not send on the channel but registers one
\* timer, and in a running process a task that no Enqueue call sends reaches
\* the channel only by one timer firing, which puts it at the tail once
C32_ResetFrame ==
    [][/\ \A w \in Workers :
            (wk[w].pc = "decide" /\ wk'[w].pc = "storeFin") =>
               LET ref == wk[w].task
                   id == IdOf(ref)
               IN /\ Task(id).status = TaskFailed
                  /\ tasks' = tasks
                  /\ heap' = [heap EXCEPT ![tasks[id]] =
                                [@ EXCEPT !.status = TaskPending, !.started = FALSE,
                                          !.finished = FALSE, !.result = NoResult]]
                  /\ queue' = queue
                  /\ timers' = timers (+) SetToBag({ref})
       /\ (phase = "up" /\ phase' = "up" /\ enq' = enq /\ Len(queue') > Len(queue)) =>
               \E ref \in Refs :
                  /\ BagIn(ref, timers)
                  /\ timers' = timers (-) SetToBag({ref})
                  /\ queue' = Append(queue, ref)]_vars

\* C33: a runs row is inserted only by a worker that has just recorded a
\* successful attempt: in every step that adds a row, a worker past its last
\* UpdateTask inserts it for the task it holds, whose run was OK and whose
\* status, in memory and in the tasks table, is succeeded
C33_RowOnlyAfterSuccess ==
    [][runs' # runs =>
          \E w \in Workers :
             LET id == IdOf(wk[w].task)
             IN /\ wk[w].pc = "index" /\ wk'[w].pc = "idle"
                /\ wk[w].result.ok
                /\ runs' = Append(runs, runs'[Len(runs')])
                /\ runs'[Len(runs')].task_id = id
                /\ heap[wk[w].task].status = TaskSucceeded
                /\ Task(id).status = TaskSucceeded
                /\ RowOf(id) # 0 /\ store[RowOf(id)].status = TaskSucceeded]_vars

\* C34: the task_log events of an attempt are broadcast after the running
\* task_update of that attempt and before its succeeded or failed one: among
\* the events of a task every task_log follows a task_update with status
\* running with nothing but task_log events between them, and no log callback
\* runs once runMain has returned: both reader goroutines are done by then
C34_LogsWithinAttempt ==
    /\ \A id \in DOMAIN sent : \A i \in DOMAIN sent[id] :
          sent[id][i] = "task_log" =>
             /\ i > 1
             /\ sent[id][i - 1] \in {"task_log", TaskRunning}
    /\ pipe.pc \in {"returned", "taken"} => \A s \in Streams : pipe.done[s]

\* both attempts of a task have broadcast log lines, each between its running
\* and its failed or succeeded task_update
C34_Witness ==
    \E id \in DOMAIN sent :
       \E i, j, k, l \in DOMAIN sent[id] :
          /\ i < j /\ j < k /\ k < l
          /\ sent[id][i] = "task_log" /\ sent[id][j] = TaskFailed
          /\ sent[id][k] = "task_log" /\ sent[id][l] = TaskSucceeded

\* C35: no goroutine holds tq.mu and h.mu at the same time: a worker that is
\* inside Broadcast, stalled or not, does not hold tq.mu, so whoever holds
\* tq.mu can go on to release it and a stalled Broadcast keeps no worker from
\* the task map
C35_LocksNeverNested ==
    /\ \A w \in Workers : wk[w].pc = "stuck" => mu # w
    /\ mu # 0 => ENABLED (updateFn(mu) \/ updateUnlock(mu))

\* a Broadcast is stalled in one worker while another holds tq.mu for its
\* update
C35_Witness ==
    \E v, w \in Workers : wk[v].pc = "stuck" /\ mu = w /\ wk[w].pc = "pubFin"

\* C36: the tasks leave the channel in the order they were sent: a worker
\* receives the task at the head, so when a task is dequeued for the first
\* time no task of an Enqueue call that returned before its own call started
\* is still waiting for its first dequeue, and a retried task enters at the
\* tail, behind every task on the channel
C36_DequeuedInPushOrder ==
    [][/\ \A w \in Workers :
            (wk[w].pc = "idle" /\ wk'[w].pc = "mark") =>
               LET b == wk'[w].task
                   Pos(id) == CHOOSE i \in DOMAIN issued : issued[i] = id
               IN /\ queue = <<b>> \o queue'
                  /\ heap[b].attempts = 0 =>
                        \A i \in DOMAIN queue' :
                           ~(/\ heap[queue'[i]].attempts = 0
                             /\ Pos(IdOf(queue'[i])) < Pos(IdOf(b)))
       /\ \A ref \in Refs :
            (phase' = "up" /\ BagIn(ref, timers) /\ timers' = timers (-) SetToBag({ref})) =>
               queue' = Append(queue, ref)]_vars

\* the first task has failed once and has re-entered the channel behind the
\* second, which was sent while the first was with its worker
C36_Witness ==
    /\ Len(queue) = 2 /\ Len(issued) = 2
    /\ IdOf(queue[1]) = issued[2] /\ heap[queue[1]].attempts = 0
    /\ IdOf(queue[2]) = issued[1] /\ heap[queue[2]].attempts = 1

\* C37: whenever Get shows a task as failed the failure is final: the task
\* has used up its retries (attempts > max_retries) or is of an unknown type,
\* and while the process runs the task of that ID stays failed
C37_FailedIsFinal ==
    [][\A id \in DOMAIN tasks :
          Task(id).status = TaskFailed =>
             /\ Task(id).attempts > Task(id).maxRetries \/ Task(id).type \notin TaskTypes
             /\ phase' = "up" =>
                   id \in DOMAIN tasks' /\ heap'[tasks'[id]].status = TaskFailed]_vars

\* C38: in every state a task that is not terminal (it is pending, running,
\* or failed with retries left, its timer pending or not) has a row in the
\* tasks table whose status is pending or running, never failed, so that a
\* startup after a crash would re-enqueue it
C38_StoredAsUnfinished ==
    \A id \in DOMAIN tasks :
       (RowOf(id) # 0 /\ ~Terminal(id)) =>
          store[RowOf(id)].status \in {TaskPending, TaskRunning}

\* C39: last_error is written only by a failed external run: the last_error
\* of a task object changes only in the result update of a worker whose run
\* failed, to the error of that run (so not in the retry reset, in a later
\* success or in the default branch of an unknown type); the objects a
\* startup loads carry the last_error of their rows and the recovery leaves
\* it; and a task of an unknown type has an empty last_error
C39_LastErrorOnlyByFailedRun ==
    [][/\ \A ref \in DOMAIN heap :
            (phase = phase' /\ ref \in DOMAIN heap'
                /\ heap'[ref].lastError # heap[ref].lastError) =>
               \E w \in Workers :
                  /\ wk[w].pc = "finish" /\ wk'[w].pc = "decide"
                  /\ ~wk[w].result.ok
                  /\ IdOf(wk[w].task) = IdOf(ref)
                  /\ heap'[ref].lastError = wk[w].result.error
       /\ (phase = "up" /\ phase' = "boot") =>
            \A ref \in DOMAIN heap' :
               heap'[ref].lastError = store[RowOf(IdOf(ref))].lastError
       /\ \A id \in DOMAIN tasks' :
            heap'[tasks'[id]].type \notin TaskTypes => heap'[tasks'[id]].lastError = ""]_vars

====
